---- MODULE Spec2Model ----
(***************************************************************************)
(* Model of the workflow execution engine of FlowAutomationApp             *)
(* (workflow-engine-core.ts): WorkflowExecutionEngine.executeWorkflow,     *)
(* getExecutionOrder, getNodeInputData, and WorkflowUtils.validateWorkflow *)
(* with hasCircularDependencies.                                           *)
(*                                                                         *)
(* Node ids are the integers 1..MaxNodes; a workflow lists the nodes       *)
(* 1..k (k <= MaxNodes) in insertion order, so a connection endpoint in    *)
(* k+1..MaxNodes names no node of the workflow.  NodeData objects are      *)
(* functions from keys to string values; the value of a missing property  *)
(* is Undefined.  Strings built by template literals are sequences of     *)
(* their pieces.                                                           *)
(***************************************************************************)
EXTENDS Integers, Sequences, FiniteSets, TLC

\* ------------------------------------------------------------------ bounds
MaxNodes == 3
MaxConns == 2

\* the most registerProcessor calls made on an engine
MaxRegistrations == 2

\* ------------------------------------------------------------- data model
NodeIds == 1..MaxNodes

NodeTypes == {"trigger", "action"}

ErrorHandlingModes == {"stop", "continue", "retry"}

Undefined == "undefined"

EmptyData == [k \in {} |-> Undefined]

NodeNames == <<"N1", "N2", "N3", "N4", "N5", "N6">>

\* Object.assign(target, source)
Assign(target, source) ==
  [k \in (DOMAIN target) \cup (DOMAIN source) |->
     IF k \in DOMAIN source THEN source[k] ELSE target[k]]

\* obj[key] of a NodeData object
Get(obj, key) == IF key \in DOMAIN obj THEN obj[key] ELSE Undefined

\* array.map(f) for the two projections the engine uses
RECURSIVE MapSource(_)
MapSource(conns) ==
  IF conns = <<>> THEN <<>>
  ELSE <<Head(conns).sourceNodeId>> \o MapSource(Tail(conns))

RECURSIVE MapTarget(_)
MapTarget(conns) ==
  IF conns = <<>> THEN <<>>
  ELSE <<Head(conns).targetNodeId>> \o MapTarget(Tail(conns))

RECURSIVE MapId(_)
MapId(nodes) ==
  IF nodes = <<>> THEN <<>>
  ELSE <<Head(nodes).id>> \o MapId(Tail(nodes))

\* the trigger filter counting enabled trigger nodes only
IsTrigger_Enabled(node) == node.type = "trigger" /\ node.enabled

\* workflow.nodes.filter(node => node.type === 'trigger')
IsTrigger(node) == node.type = "trigger"

triggerNodes(wf) == SelectSeq(wf.nodes, IsTrigger)

\* workflow.nodes.find(n => n.id === nodeId): the index of the node, 0 when
\* find returns undefined
FindNode(wf, nodeId) ==
  IF \E i \in 1..Len(wf.nodes) : wf.nodes[i].id = nodeId
  THEN CHOOSE i \in 1..Len(wf.nodes) :
         /\ wf.nodes[i].id = nodeId
         /\ \A j \in 1..(i - 1) : wf.nodes[j].id # nodeId
  ELSE 0

\* ------------------------------------------------------------------- state
VARIABLES
  workflow,        \* the Workflow passed to the engine and the validator
  triggerData,     \* the triggerData argument (EmptyData: none given)
  processors,      \* WorkflowExecutionEngine.processors: nodeId -> processor
  pc,              \* position of the executeWorkflow call
  execution,       \* the WorkflowExecution record of the call
  executionOrder,  \* const executionOrder
  idx,             \* position of the for..of loop in executionOrder
  nodeContext,     \* const nodeContext of the current iteration
  processor,       \* const processor of the current iteration
  calls,           \* every processor.execute call of the run, in order
  orderResult,     \* last value returned by getExecutionOrder
  validation,      \* last value returned by validateWorkflow
  called,          \* the functions among these two that have been called
  other,           \* the other executeWorkflow call on the engine: its locals
  validations,     \* the values returned by earlier validateWorkflow calls
  registrations,   \* every registerProcessor call so far, in order
  currentWorkflow  \* the builder store's state.currentWorkflow

vars == <<workflow, triggerData, processors, pc, execution, executionOrder,
          idx, nodeContext, processor, calls, orderResult, validation,
          called, other, validations, registrations, currentWorkflow>>

runVars == <<pc, execution, executionOrder, idx, nodeContext, processor, calls>>

\* what the calls of one run and of the pure functions leave alone
engineVars == <<other, validations, registrations, currentWorkflow>>

\* ------------------------------------------------------ getExecutionOrder
RECURSIVE visit(_, _, _)
RECURSIVE visitEach(_, _, _)

\* dependencies.forEach(visit), threading the closure's visited set and order
visitEach(wf, ids, st) ==
  IF ids = <<>> THEN st
  ELSE visitEach(wf, Tail(ids), visit(wf, Head(ids), st))

\* visit following the connections from their source to their target: the
\* nodes visited before the node are the targets of its outgoing connections
visit_FollowsTargets(wf, nodeId, st) ==
  IF nodeId \in st.visited THEN st
  ELSE LET marked == [st EXCEPT !.visited = @ \cup {nodeId}]
           Sources(conn) == conn.sourceNodeId = nodeId
           dependencies == MapTarget(SelectSeq(wf.connections, Sources))
           after == visitEach(wf, dependencies, marked)
       IN [after EXCEPT !.order = Append(@, nodeId)]

\* visit appending the node to the order before it visits the dependencies
visit_AppendsFirst(wf, nodeId, st) ==
  IF nodeId \in st.visited THEN st
  ELSE LET marked == [st EXCEPT !.visited = @ \cup {nodeId},
                                !.order = Append(@, nodeId)]
           Targets(conn) == conn.targetNodeId = nodeId
           dependencies == MapSource(SelectSeq(wf.connections, Targets))
       IN visitEach(wf, dependencies, marked)

\* visit with the visited test applied to the recursion only: an id that
\* was visited before is appended to the order again
visit_AppendsVisited(wf, nodeId, st) ==
  IF nodeId \in st.visited THEN [st EXCEPT !.order = Append(@, nodeId)]
  ELSE LET marked == [st EXCEPT !.visited = @ \cup {nodeId}]
           Targets(conn) == conn.targetNodeId = nodeId
           dependencies == MapSource(SelectSeq(wf.connections, Targets))
           after == visitEach(wf, dependencies, marked)
       IN [after EXCEPT !.order = Append(@, nodeId)]

visit(wf, nodeId, st) ==
  IF nodeId \in st.visited THEN st
  ELSE LET marked == [st EXCEPT !.visited = @ \cup {nodeId}]
           Targets(conn) == conn.targetNodeId = nodeId
           dependencies == MapSource(SelectSeq(wf.connections, Targets))
           after == visitEach(wf, dependencies, marked)
       IN [after EXCEPT !.order = Append(@, nodeId)]

\* getExecutionOrder with the visited set kept between calls: it starts
\* from the ids that the engine's other call visited
getExecutionOrder_KeepsVisited(wf) ==
  visitEach(wf, MapId(triggerNodes(wf)),
            [visited |-> {other.executionOrder[i] :
                            i \in 1..Len(other.executionOrder)},
             order |-> <<>>]).order

getExecutionOrder(wf) ==
  visitEach(wf, MapId(triggerNodes(wf)), [visited |-> {}, order |-> <<>>]).order

\* ------------------------------------------------ hasCircularDependencies
RECURSIVE hasCycle(_, _, _)
RECURSIVE hasCycleAny(_, _, _)

\* the for loop over dependencies (and over workflow.nodes): stops at the
\* first call that returns true
hasCycleAny(wf, ids, st) ==
  IF ids = <<>> THEN st
  ELSE LET r == hasCycle(wf, Head(ids), st)
       IN IF r.found THEN r ELSE hasCycleAny(wf, Tail(ids), r)

\* hasCycle without recursionStack.delete(nodeId) on the way out
hasCycle_KeepsStack(wf, nodeId, st) ==
  IF nodeId \in st.recursionStack THEN [st EXCEPT !.found = TRUE]
  ELSE IF nodeId \in st.visited THEN st
  ELSE LET entered == [st EXCEPT !.visited = @ \cup {nodeId},
                                 !.recursionStack = @ \cup {nodeId}]
           Sources(conn) == conn.sourceNodeId = nodeId
           dependencies == MapTarget(SelectSeq(wf.connections, Sources))
       IN hasCycleAny(wf, dependencies, entered)

\* hasCycle with its two tests exchanged: visited is consulted before the
\* recursion stack
hasCycle_VisitedFirst(wf, nodeId, st) ==
  IF nodeId \in st.visited THEN st
  ELSE IF nodeId \in st.recursionStack THEN [st EXCEPT !.found = TRUE]
  ELSE LET entered == [st EXCEPT !.visited = @ \cup {nodeId},
                                 !.recursionStack = @ \cup {nodeId}]
           Sources(conn) == conn.sourceNodeId = nodeId
           dependencies == MapTarget(SelectSeq(wf.connections, Sources))
           r == hasCycleAny(wf, dependencies, entered)
       IN IF r.found THEN r
          ELSE [r EXCEPT !.recursionStack = @ \ {nodeId}]

hasCycle(wf, nodeId, st) ==
  IF nodeId \in st.recursionStack THEN [st EXCEPT !.found = TRUE]
  ELSE IF nodeId \in st.visited THEN st
  ELSE LET entered == [st EXCEPT !.visited = @ \cup {nodeId},
                                 !.recursionStack = @ \cup {nodeId}]
           Sources(conn) == conn.sourceNodeId = nodeId
           dependencies == MapTarget(SelectSeq(wf.connections, Sources))
           r == hasCycleAny(wf, dependencies, entered)
       IN IF r.found THEN r
          ELSE [r EXCEPT !.recursionStack = @ \ {nodeId}]

hasCircularDependencies(wf) ==
  hasCycleAny(wf, MapId(wf.nodes),
              [visited |-> {}, recursionStack |-> {}, found |-> FALSE]).found

\* -------------------------------------------------------- validateWorkflow
NoTriggerError == <<"Workflow must have at least one trigger node">>

CircularError == <<"Workflow contains circular dependencies">>

MissingSourceError(id) ==
  <<"Connection references non-existent source node: ", id>>

MissingTargetError(id) ==
  <<"Connection references non-existent target node: ", id>>

RECURSIVE connectionErrors(_, _)
connectionErrors(wf, conns) ==
  IF conns = <<>> THEN <<>>
  ELSE LET connection == Head(conns)
           src == IF FindNode(wf, connection.sourceNodeId) = 0
                  THEN <<MissingSourceError(connection.sourceNodeId)>>
                  ELSE <<>>
           tgt == IF FindNode(wf, connection.targetNodeId) = 0
                  THEN <<MissingTargetError(connection.targetNodeId)>>
                  ELSE <<>>
       IN src \o tgt \o connectionErrors(wf, Tail(conns))

\* validateWorkflow with its errors array kept between calls: the errors of
\* the call before are still in it
validateWorkflow_SharedErrors(wf) ==
  LET e1 == IF Len(triggerNodes(wf)) = 0 THEN <<NoTriggerError>> ELSE <<>>
      e2 == IF hasCircularDependencies(wf) THEN <<CircularError>> ELSE <<>>
      errors == validation.errors \o e1 \o e2
                  \o connectionErrors(wf, wf.connections)
  IN [isValid |-> Len(errors) = 0, errors |-> errors]

\* validateWorkflow returning at the first check that finds an error
validateWorkflow_ShortCircuit(wf) ==
  LET e1 == IF Len(triggerNodes(wf)) = 0 THEN <<NoTriggerError>> ELSE <<>>
      e2 == IF hasCircularDependencies(wf) THEN <<CircularError>> ELSE <<>>
      errors == IF e1 # <<>> THEN e1
                ELSE IF e2 # <<>> THEN e2
                ELSE connectionErrors(wf, wf.connections)
  IN [isValid |-> Len(errors) = 0, errors |-> errors]

validateWorkflow(wf) ==
  LET e1 == IF Len(triggerNodes(wf)) = 0 THEN <<NoTriggerError>> ELSE <<>>
      e2 == IF hasCircularDependencies(wf) THEN <<CircularError>> ELSE <<>>
      errors == e1 \o e2 \o connectionErrors(wf, wf.connections)
  IN [isValid |-> Len(errors) = 0, errors |-> errors]

\* ------------------------------------------------------------ processors
\* A processor is the set of outcomes a call of its execute() can have: it
\* resolves with an output object or rejects with an error message.
Resolves(output) == [throws |-> FALSE, output |-> output, message |-> Undefined]

Rejects(message) == [throws |-> TRUE, output |-> EmptyData, message |-> message]

\* MockAIProcessor.execute: the payload depends on the node type only
MockAIProcessor(node) ==
  {Resolves(CASE node.type = "action" -> [success |-> "true", data |-> "mock"]
              [] node.type = "table" -> [recordsAffected |-> "n"]
              [] node.type = "email" -> [sent |-> "true", messageId |-> "msg"]
              [] node.type = "notification" ->
                   [delivered |-> "true", recipients |-> "list"]
              [] OTHER -> [processed |-> "true"])}

\* this.processors.get(nodeId): the empty set stands for undefined
NotRegistered == {}

\* processors whose result does not vary: one that always throws, one that
\* always returns the same output
Throwing == {Rejects("boom")}

Returning == {Resolves([out |-> "value"])}

\* ------------------------------------------------- initial values of state
NoContext ==
  [nodeId |-> 0, executionId |-> 0, inputData |-> EmptyData, outputData |-> EmptyData,
   status |-> "pending", endTime |-> Undefined, error |-> Undefined]

NoExecution ==
  [id |-> 0, status |-> "pending", endTime |-> Undefined, triggerData |-> EmptyData,
   nodeExecutions |-> <<>>, error |-> <<>>]

NoValidation == [isValid |-> TRUE, errors |-> <<>>]

\* initialState.currentWorkflow: null
NoCurrentWorkflow == <<>>

\* the locals of an executeWorkflow call that has not been made
NoRun ==
  [pc |-> "idle", execution |-> NoExecution, executionOrder |-> <<>>,
   idx |-> 0, nodeContext |-> NoContext, processor |-> NotRegistered,
   calls |-> <<>>]

\* exec_<Date.now()>_<random>: an id that differs from the id of the other
\* execution of the engine
NewExecutionId == other.execution.id + 1

\* -------------------------------------------------------- getNodeInputData
\* execution.nodeExecutions.find(exec => exec.nodeId === id): index or 0
FindExecution(exec, nodeId) ==
  IF \E i \in 1..Len(exec.nodeExecutions) : exec.nodeExecutions[i].nodeId = nodeId
  THEN CHOOSE i \in 1..Len(exec.nodeExecutions) :
         /\ exec.nodeExecutions[i].nodeId = nodeId
         /\ \A j \in 1..(i - 1) : exec.nodeExecutions[j].nodeId # nodeId
  ELSE 0

RECURSIVE routeConnections(_, _, _)

\* the loop over the incoming connections without its test of the source
\* context's status
routeConnections_AnyStatus(conns, exec, inputData) ==
  IF conns = <<>> THEN inputData
  ELSE LET connection == Head(conns)
           i == FindExecution(exec, connection.sourceNodeId)
           routed ==
             IF i # 0
             THEN Assign(inputData,
                         [k \in {connection.targetInput} |->
                            Get(exec.nodeExecutions[i].outputData,
                                connection.sourceOutput)])
             ELSE inputData
       IN routeConnections(Tail(conns), exec, routed)

\* the loop over the incoming connections of the node
routeConnections(conns, exec, inputData) ==
  IF conns = <<>> THEN inputData
  ELSE LET connection == Head(conns)
           i == FindExecution(exec, connection.sourceNodeId)
           routed ==
             IF i # 0 /\ exec.nodeExecutions[i].status = "completed"
             THEN Assign(inputData,
                         [k \in {connection.targetInput} |->
                            Get(exec.nodeExecutions[i].outputData,
                                connection.sourceOutput)])
             ELSE inputData
       IN routeConnections(Tail(conns), exec, routed)

\* getNodeInputData with the variables merged after the trigger data
getNodeInputData_VariablesLast(node, wf, exec) ==
  LET Incoming(conn) == conn.targetNodeId = node.id
      incomingConnections == SelectSeq(wf.connections, Incoming)
      fromNodes == routeConnections(incomingConnections, exec, EmptyData)
  IN IF node.type = "trigger"
     THEN Assign(Assign(fromNodes, exec.triggerData), wf.variables)
     ELSE Assign(fromNodes, wf.variables)

\* getNodeInputData looking the source contexts up in the records of both
\* calls of the engine
getNodeInputData_AnyExecution(node, wf, exec) ==
  LET Incoming(conn) == conn.targetNodeId = node.id
      incomingConnections == SelectSeq(wf.connections, Incoming)
      both == [exec EXCEPT !.nodeExecutions =
                             @ \o other.execution.nodeExecutions]
      fromNodes == routeConnections(incomingConnections, both, EmptyData)
      withVariables == Assign(fromNodes, wf.variables)
  IN IF node.type = "trigger"
     THEN Assign(withVariables, exec.triggerData)
     ELSE withVariables

\* getNodeInputData with the variables assigned before the loop over the
\* incoming connections
getNodeInputData_ConnectionsLast(node, wf, exec) ==
  LET Incoming(conn) == conn.targetNodeId = node.id
      incomingConnections == SelectSeq(wf.connections, Incoming)
      fromNodes == routeConnections(incomingConnections, exec, wf.variables)
  IN IF node.type = "trigger"
     THEN Assign(fromNodes, exec.triggerData)
     ELSE fromNodes

getNodeInputData(node, wf, exec) ==
  LET Incoming(conn) == conn.targetNodeId = node.id
      incomingConnections == SelectSeq(wf.connections, Incoming)
      fromNodes == routeConnections(incomingConnections, exec, EmptyData)
      withVariables == Assign(fromNodes, wf.variables)
  IN IF node.type = "trigger"
     THEN Assign(withVariables, exec.triggerData)
     ELSE withVariables

\* --------------------------------------------------------- executeWorkflow
NoTriggerNodesMessage == <<"No trigger nodes found in workflow">>

NodeFailedMessage(node, error) == <<"Node ", node.name, " failed: ", error>>

\* the outer catch block without its status assignment
CatchExecutionError_ErrorOnly(exec, message) == [exec EXCEPT !.error = message]

\* the outer catch block
CatchExecutionError(exec, message) ==
  [exec EXCEPT !.status = "failed", !.error = message]

\* the inner catch block: the context of the node whose processor threw
FailContext(ctx, message) ==
  [ctx EXCEPT !.status = "failed", !.error = message, !.endTime = "stamped"]

\* the tail of the inner try block without its status assignment
CompleteContext_StaysRunning(ctx, output) ==
  [ctx EXCEPT !.outputData = output, !.endTime = "stamped"]

\* the tail of the inner try block
CompleteContext(ctx, output) ==
  [ctx EXCEPT !.outputData = output, !.status = "completed",
              !.endTime = "stamped"]

\* execution.nodeExecutions.push(nodeContext)
PushContext(exec, ctx) ==
  [exec EXCEPT !.nodeExecutions = Append(@, ctx)]

\* the branch taken for every mode but 'continue'
StopsOnError_UnlessContinue(wf) == wf.settings.errorHandling # "continue"

\* the inner catch block's branch on the error handling mode
StopsOnError(wf) == wf.settings.errorHandling = "stop"

\* the inner catch block under 'stop' without its status assignment
StopExecution_ErrorOnly(exec, node, failed) ==
  [exec EXCEPT !.error = NodeFailedMessage(node, failed.error)]

\* the inner catch block under 'stop', before its break
StopExecution(exec, node, failed) ==
  [exec EXCEPT !.status = "failed",
               !.error = NodeFailedMessage(node, failed.error)]

\* execution.endTime = new Date()
StampEndTime(exec) == [exec EXCEPT !.endTime = "stamped"]

\* the end of the call with the status assignment after the loop made
\* unconditionally
FinishExecution_AlwaysCompleted(exec) ==
  StampEndTime([exec EXCEPT !.status = "completed"])

\* the end of the call without the status assignment after the loop
FinishExecution_StampOnly(exec) == StampEndTime(exec)

\* after the loop: completed unless a stop marked the run failed; endTime
FinishExecution(exec) ==
  StampEndTime([exec EXCEPT !.status = IF @ # "failed" THEN "completed" ELSE @])

\* the last processor.execute call of the log has settled
SettleCall(log, result) == [log EXCEPT ![Len(log)].result = result]

\* the skip test without its test of node.enabled
Skipped_AbsentOnly(wf, nodeId) == FindNode(wf, nodeId) = 0

\* if (!node || !node.enabled) continue
Skipped(wf, nodeId) ==
  LET i == FindNode(wf, nodeId)
  IN IF i = 0 THEN TRUE ELSE ~wf.nodes[i].enabled

\* the position of the first node at or after position i of the order that
\* the loop does not skip; Len(order) + 1 when there is none
RECURSIVE NextAttempted(_, _, _)
NextAttempted(wf, order, i) ==
  IF i > Len(order) THEN i
  ELSE IF Skipped(wf, order[i]) THEN NextAttempted(wf, order, i + 1)
  ELSE i

\* The loop from position i up to its next await: the skipped nodes are
\* passed over; the next node gets its context with its inputs resolved,
\* its processor is looked up (or the mock created) and execute() is called;
\* when the order is exhausted the execution is finished and returned.
RunLoopFrom(order, exec, settled, i) ==
  LET j == NextAttempted(workflow, order, i)
  IN /\ idx' = j
     /\ IF j > Len(order)
        THEN /\ execution' = FinishExecution(exec)
             /\ pc' = "returned"
             /\ nodeContext' = NoContext
             /\ processor' = NotRegistered
             /\ calls' = settled
        ELSE LET nodeId == order[j]
                 node == workflow.nodes[FindNode(workflow, nodeId)]
             IN /\ execution' = exec
                /\ pc' = "awaiting"
                /\ nodeContext' =
                     [NoContext EXCEPT
                        !.nodeId = node.id,
                        !.executionId = exec.id,
                        !.inputData = getNodeInputData(node, workflow, exec),
                        !.status = "running"]
                /\ processor' = IF processors[nodeId] # NotRegistered
                                THEN processors[nodeId]
                                ELSE MockAIProcessor(node)
                /\ calls' = Append(settled, [nodeId |-> nodeId, result |-> "pending"])

\* executeWorkflow is called: the execution record is created; a workflow
\* without trigger nodes is rejected through the outer catch; otherwise the
\* order is computed and the loop runs up to its first await
ExecuteWorkflow ==
  /\ pc = "idle"
  /\ LET created == [NoExecution EXCEPT !.id = NewExecutionId,
                                        !.status = "running",
                                        !.triggerData = triggerData]
     IN IF Len(triggerNodes(workflow)) = 0
        THEN /\ execution' = StampEndTime(
                               CatchExecutionError(created, NoTriggerNodesMessage))
             /\ pc' = "returned"
             /\ UNCHANGED <<executionOrder, idx, nodeContext, processor, calls>>
        ELSE LET order == getExecutionOrder(workflow)
             IN /\ executionOrder' = order
                /\ RunLoopFrom(order, created, calls, 1)
  /\ UNCHANGED <<workflow, triggerData, processors, orderResult, validation,
                 called>>
  /\ UNCHANGED engineVars

\* await processor.execute(nodeContext) resolves: the context is completed
\* and pushed, the loop goes on
ProcessorResolves ==
  /\ pc = "awaiting"
  /\ executionOrder' = executionOrder
  /\ \E outcome \in processor :
       /\ ~outcome.throws
       /\ RunLoopFrom(executionOrder,
                      PushContext(execution,
                                  CompleteContext(nodeContext, outcome.output)),
                      SettleCall(calls, "resolved"), idx + 1)
  /\ UNCHANGED <<workflow, triggerData, processors, orderResult, validation,
                 called>>
  /\ UNCHANGED engineVars

\* await processor.execute(nodeContext) rejects: the context is failed;
\* under 'stop' the run is marked failed and the loop is left by break,
\* otherwise the context is pushed and the loop goes on
ProcessorRejects ==
  /\ pc = "awaiting"
  /\ executionOrder' = executionOrder
  /\ \E outcome \in processor :
       /\ outcome.throws
       /\ LET failed == FailContext(nodeContext, outcome.message)
              node == workflow.nodes[FindNode(workflow, nodeContext.nodeId)]
          IN IF StopsOnError(workflow)
             THEN /\ execution' = FinishExecution(
                                    StopExecution(execution, node, failed))
                  /\ pc' = "returned"
                  /\ nodeContext' = NoContext
                  /\ processor' = NotRegistered
                  /\ calls' = SettleCall(calls, "rejected")
                  /\ idx' = idx
             ELSE RunLoopFrom(executionOrder, PushContext(execution, failed),
                              SettleCall(calls, "rejected"), idx + 1)
  /\ UNCHANGED <<workflow, triggerData, processors, orderResult, validation,
                 called>>
  /\ UNCHANGED engineVars

\* registerProcessor that leaves a processor already registered in place
RegisterProcessor_KeepsFirst ==
  /\ pc \in {"idle", "awaiting"}
  /\ Len(registrations) < MaxRegistrations
  /\ \E nodeId \in NodeIds : \E p \in {Throwing, Returning} :
       /\ processors' = IF processors[nodeId] = NotRegistered
                        THEN [processors EXCEPT ![nodeId] = p]
                        ELSE processors
       /\ registrations' =
            Append(registrations, [nodeId |-> nodeId, processor |-> p])
  /\ UNCHANGED <<workflow, triggerData, orderResult, validation, called,
                 other, validations, currentWorkflow>>
  /\ UNCHANGED runVars

\* registerProcessor(nodeId, processor) is called, before a run or while a
\* run awaits a processor: this.processors.set(nodeId, processor)
RegisterProcessor ==
  /\ pc \in {"idle", "awaiting"}
  /\ Len(registrations) < MaxRegistrations
  /\ \E nodeId \in NodeIds : \E p \in {Throwing, Returning} :
       /\ processors' = [processors EXCEPT ![nodeId] = p]
       /\ registrations' =
            Append(registrations, [nodeId |-> nodeId, processor |-> p])
  /\ UNCHANGED <<workflow, triggerData, orderResult, validation, called,
                 other, validations, currentWorkflow>>
  /\ UNCHANGED runVars

\* the locals of the executeWorkflow call that the state variables hold
ThisRun ==
  [pc |-> pc, execution |-> execution, executionOrder |-> executionOrder,
   idx |-> idx, nodeContext |-> nodeContext, processor |-> processor,
   calls |-> calls]

\* The engine's other executeWorkflow call gets the turn: the event loop
\* leaves this call where it is (not yet made, at its await, or returned)
\* and goes on with the other one. Both calls are made on the same engine
\* with the same workflow and triggerData.
SwitchCall ==
  /\ other' = ThisRun
  /\ pc' = other.pc
  /\ execution' = other.execution
  /\ executionOrder' = other.executionOrder
  /\ idx' = other.idx
  /\ nodeContext' = other.nodeContext
  /\ processor' = other.processor
  /\ calls' = other.calls
  /\ UNCHANGED <<workflow, triggerData, processors, orderResult, validation,
                 called, validations, registrations, currentWorkflow>>

\* executeWorkflow is called a second time after the first call returned
CallAgain ==
  /\ pc = "returned"
  /\ other = NoRun
  /\ SwitchCall

\* ------------------------------------------------- calls of pure functions
CallGetExecutionOrder ==
  /\ pc = "idle"
  /\ orderResult' = getExecutionOrder(workflow)
  /\ called' = called \cup {"getExecutionOrder"}
  /\ UNCHANGED <<workflow, triggerData, processors, validation>>
  /\ UNCHANGED runVars
  /\ UNCHANGED engineVars

\* validateWorkflow dropping from the workflow the connections that it
\* reports as referencing a non-existent node
CallValidateWorkflow_DropsDangling ==
  /\ pc = "idle"
  /\ validation' = validateWorkflow(workflow)
  /\ called' = called \cup {"validateWorkflow"}
  /\ workflow' =
       [workflow EXCEPT !.connections =
          SelectSeq(@, LAMBDA c : /\ FindNode(workflow, c.sourceNodeId) # 0
                                  /\ FindNode(workflow, c.targetNodeId) # 0)]
  /\ UNCHANGED <<triggerData, processors, orderResult>>
  /\ UNCHANGED runVars
  /\ UNCHANGED engineVars

CallValidateWorkflow ==
  /\ pc = "idle"
  /\ validation' = validateWorkflow(workflow)
  /\ called' = called \cup {"validateWorkflow"}
  /\ UNCHANGED <<workflow, triggerData, processors, orderResult>>
  /\ UNCHANGED runVars
  /\ UNCHANGED engineVars

\* validateWorkflow is called a second time on the same workflow; the caller
\* keeps the value that the first call returned
ValidateAgain ==
  /\ pc = "idle"
  /\ "validateWorkflow" \in called
  /\ validations = <<>>
  /\ validations' = Append(validations, validation)
  /\ validation' = validateWorkflow(workflow)
  /\ UNCHANGED <<workflow, triggerData, processors, orderResult, called,
                 other, registrations, currentWorkflow>>
  /\ UNCHANGED runVars

\* ------------------------------------------------- the builder's reducers
\* state.currentWorkflow.nodes.push(action.payload)
addNodeToCurrentWorkflow(cw, payload) ==
  IF cw = NoCurrentWorkflow THEN cw
  ELSE [cw EXCEPT !.nodes = Append(@, payload)]

\* the reducer removing only the connections that leave the deleted node
deleteNodeFromCurrentWorkflow_SourceOnly(cw, payload) ==
  IF cw = NoCurrentWorkflow THEN cw
  ELSE [cw EXCEPT
          !.nodes = SelectSeq(@, LAMBDA n : n.id # payload),
          !.connections = SelectSeq(@, LAMBDA c : c.sourceNodeId # payload)]

\* the nodes and the connections are filtered by the deleted id
deleteNodeFromCurrentWorkflow(cw, payload) ==
  IF cw = NoCurrentWorkflow THEN cw
  ELSE [cw EXCEPT
          !.nodes = SelectSeq(@, LAMBDA n : n.id # payload),
          !.connections =
             SelectSeq(@, LAMBDA c : /\ c.sourceNodeId # payload
                                     /\ c.targetNodeId # payload)]

\* state.currentWorkflow.connections.push(action.payload)
addConnectionToCurrentWorkflow(cw, payload) ==
  IF cw = NoCurrentWorkflow THEN cw
  ELSE [cw EXCEPT !.connections = Append(@, payload)]

\* the connections are filtered by the deleted connection id
deleteConnectionFromCurrentWorkflow(cw, payload) ==
  IF cw = NoCurrentWorkflow THEN cw
  ELSE [cw EXCEPT !.connections = SelectSeq(@, LAMBDA c : c.id # payload)]

\* the ids of the nodes of the builder's current workflow
CurrentNodeIds ==
  IF currentWorkflow = NoCurrentWorkflow THEN {}
  ELSE {currentWorkflow.nodes[i].id : i \in 1..Len(currentWorkflow.nodes)}

\* the ids that handleConnectionEnd can give a connection
ConnectionIds == 1..MaxConns

\* what the builder's actions leave alone
BuilderFrame ==
  /\ UNCHANGED <<workflow, triggerData, processors, orderResult, validation,
                 called, other, validations, registrations>>
  /\ UNCHANGED runVars

\* a node is dropped on the canvas: its id is node_<Date.now()>_<random>,
\* an id that no node of the current workflow has
DispatchAddNode ==
  /\ currentWorkflow # NoCurrentWorkflow
  /\ Len(currentWorkflow.nodes) < MaxNodes
  /\ \E i \in NodeIds \ CurrentNodeIds :
       currentWorkflow' =
         addNodeToCurrentWorkflow(
           currentWorkflow,
           [id |-> i, type |-> "action", name |-> NodeNames[i],
            enabled |-> TRUE])
  /\ BuilderFrame

DispatchDeleteNode ==
  /\ \E i \in NodeIds :
       currentWorkflow' = deleteNodeFromCurrentWorkflow(currentWorkflow, i)
  /\ BuilderFrame

\* conn_<Date.now()>_<random>: an id that no connection of the current
\* workflow has
NewConnectionId ==
  CHOOSE id \in ConnectionIds :
    /\ \A i \in 1..Len(currentWorkflow.connections) :
         currentWorkflow.connections[i].id # id
    /\ \A smaller \in 1..(id - 1) :
         \E i \in 1..Len(currentWorkflow.connections) :
           currentWorkflow.connections[i].id = smaller

\* handleConnectionEnd: a connection between two nodes of the canvas
DispatchAddConnection ==
  /\ currentWorkflow # NoCurrentWorkflow
  /\ Len(currentWorkflow.connections) < MaxConns
  /\ \E id \in {NewConnectionId} : \E a \in CurrentNodeIds : \E b \in CurrentNodeIds :
       currentWorkflow' =
         addConnectionToCurrentWorkflow(
           currentWorkflow,
           [id |-> id, sourceNodeId |-> a, targetNodeId |-> b,
            sourceOutput |-> "out", targetInput |-> "in"])
  /\ BuilderFrame

DispatchDeleteConnection ==
  /\ \E id \in ConnectionIds :
       currentWorkflow' =
         deleteConnectionFromCurrentWorkflow(currentWorkflow, id)
  /\ BuilderFrame

\* ------------------------------------------------------------ the inputs
\* the node lists of k nodes with the ids 1..k in insertion order; Disabled
\* holds the sets of positions whose node is disabled
NodeSeqs(k, Disabled) ==
  {[i \in 1..k |-> [id |-> i, type |-> t[i], name |-> NodeNames[i],
                    enabled |-> i \notin d]] :
     t \in [1..k -> NodeTypes], d \in {e \cap (1..k) : e \in Disabled}}

NodeLists(Disabled) == UNION {NodeSeqs(k, Disabled) : k \in 0..MaxNodes}

\* every node enabled; every node enabled but one
AllEnabled == {{}}

OneDisabled == {{}} \cup {{i} : i \in NodeIds}

Connections(OutKeys, InKeys) ==
  [sourceNodeId : NodeIds, targetNodeId : NodeIds,
   sourceOutput : OutKeys, targetInput : InKeys]

\* the connections between two different nodes
Links(OutKeys, InKeys) ==
  {c \in Connections(OutKeys, InKeys) : c.sourceNodeId # c.targetNodeId}

\* every list of at most maxLen connections: any order, duplicates,
\* self-connections and endpoints that name no node included
ConnectionSeqs(Conns, maxLen) == UNION {[1..m -> Conns] : m \in 0..maxLen}

\* the lists of distinct connections sorted by source, then target
Before(c, d) ==
  \/ c.sourceNodeId < d.sourceNodeId
  \/ c.sourceNodeId = d.sourceNodeId /\ c.targetNodeId < d.targetNodeId

ConnectionSets(Conns, maxLen) ==
  {cs \in ConnectionSeqs(Conns, maxLen) :
     \A i \in 1..Len(cs) : \A j \in 1..Len(cs) : i < j => Before(cs[i], cs[j])}

Workflow(ns, cs, v, mode) ==
  [nodes |-> ns, connections |-> cs, variables |-> v,
   settings |-> [errorHandling |-> mode]]

\* a registered processor whose execute() may resolve or reject
AnyProcessor == {Resolves([out |-> "value"]), Rejects("boom")}

\* the engine before any call
InitEngine ==
  /\ pc = "idle"
  /\ execution = NoExecution
  /\ executionOrder = <<>>
  /\ idx = 0
  /\ nodeContext = NoContext
  /\ processor = NotRegistered
  /\ calls = <<>>
  /\ orderResult = <<>>
  /\ validation = NoValidation
  /\ called = {}
  /\ other = NoRun
  /\ validations = <<>>
  /\ registrations = <<>>

InitRun ==
  /\ InitEngine
  /\ currentWorkflow = NoCurrentWorkflow

\* the registry after a processor was registered for each id of R
Registry(R) ==
  [n \in NodeIds |-> IF n \in R THEN AnyProcessor ELSE NotRegistered]

\* Runs of the engine: at most one node disabled, distinct connections
\* between different nodes, every error handling mode; either no processor
\* is registered, or for every node id one that may resolve or reject.
Init ==
  /\ \E ns \in NodeLists(OneDisabled) :
       \E cs \in ConnectionSets(Links({"out"}, {"in"}), MaxConns) :
         \E mode \in ErrorHandlingModes :
           workflow = Workflow(ns, cs, EmptyData, mode)
  /\ triggerData = EmptyData
  /\ processors \in {Registry({}), Registry(NodeIds)}
  /\ InitRun

Next ==
  \/ ExecuteWorkflow
  \/ ProcessorResolves
  \/ ProcessorRejects

Spec == Init /\ [][Next]_vars

\* The scheduler and the validator as functions of the workflow: every list
\* of connections, every node enabled.
InitGraph ==
  /\ \E ns \in NodeLists(AllEnabled) :
       \E cs \in ConnectionSeqs(Connections({"out"}, {"in"}), MaxConns) :
         workflow = Workflow(ns, cs, EmptyData, "stop")
  /\ triggerData = EmptyData
  /\ processors = Registry({})
  /\ InitRun

NextGraph ==
  \/ CallGetExecutionOrder
  \/ CallValidateWorkflow

SpecGraph == InitGraph /\ [][NextGraph]_vars

\* Input routing: one trigger payload and workflow variables over the keys
\* x and y, at most one connection, which routes into x or y.
Keys == {"x", "y"}

DataObjects(value) == {[k \in ks |-> value] : ks \in SUBSET Keys}

InitInputs ==
  /\ \E ns \in NodeLists(AllEnabled) :
       \E cs \in ConnectionSeqs(Connections({"out", "other"}, Keys), 1) :
         \E v \in DataObjects("1") :
           workflow = Workflow(ns, cs, v, "continue")
  /\ triggerData \in DataObjects("2")
  /\ processors = Registry(NodeIds)
  /\ InitRun

SpecInputs == InitInputs /\ [][Next]_vars

\* a processor registered for every node id: Throwing for the ids in F
ThrowingAt(F) == [n \in NodeIds |-> IF n \in F THEN Throwing ELSE Returning]

NoneOrOne == {{}} \cup {{n} : n \in NodeIds}

\* Two runs of the same workflow, one after the other, on an engine whose
\* processors do not vary: every node enabled, distinct connections between
\* different nodes, at most one processor throwing.
InitRepeat ==
  /\ \E ns \in NodeLists(AllEnabled) :
       \E cs \in ConnectionSets(Links({"out"}, {"in"}), MaxConns) :
         \E mode \in {"stop", "continue"} :
           workflow = Workflow(ns, cs, EmptyData, mode)
  /\ triggerData = EmptyData
  /\ processors \in {ThrowingAt(F) : F \in NoneOrOne}
  /\ InitRun

NextRepeat ==
  ExecuteWorkflow \/ ProcessorResolves \/ ProcessorRejects \/ CallAgain

SpecRepeat == InitRepeat /\ [][NextRepeat]_vars

\* the node types whose mock payload has a case of its own, and page for
\* the types that take the default case
UpstreamTypes == {"action", "table", "email", "notification", "page"}

\* k enabled nodes: node 1 is a trigger, the others are of any upstream type
TypedNodes(k) ==
  {[i \in 1..k |-> [id |-> i, type |-> IF i = 1 THEN "trigger" ELSE t[i],
                    name |-> NodeNames[i], enabled |-> TRUE]] :
     t \in [2..k -> UpstreamTypes]}

\* a connection from every other node into node 1
FanIn(k) ==
  [i \in 1..(k - 1) |->
     [sourceNodeId |-> i + 1, targetNodeId |-> 1,
      sourceOutput |-> "out", targetInput |-> "in"]]

\* Runs on an engine that starts with an empty registry, with calls of
\* registerProcessor before and during the run: a trigger with every other
\* node connected into it, so that every node is in the order.
InitRegistry ==
  /\ \E k \in 1..MaxNodes : \E ns \in TypedNodes(k) :
       workflow = Workflow(ns, FanIn(k), EmptyData, "continue")
  /\ triggerData = EmptyData
  /\ processors = Registry({})
  /\ InitRun

NextRegistry ==
  ExecuteWorkflow \/ ProcessorResolves \/ ProcessorRejects \/ RegisterProcessor

SpecRegistry == InitRegistry /\ [][NextRegistry]_vars

\* Two executeWorkflow calls in flight on one engine, taking turns at their
\* awaits: every node enabled, distinct connections between different
\* nodes, processors that do not vary, the one of node 1 throwing or none.
InitConcurrent ==
  /\ \E ns \in NodeLists(AllEnabled) :
       \E cs \in ConnectionSets(Links({"out"}, {"in"}), MaxConns) :
         \E mode \in {"stop", "continue"} :
           workflow = Workflow(ns, cs, EmptyData, mode)
  /\ triggerData = EmptyData
  /\ processors \in {ThrowingAt({}), ThrowingAt({1})}
  /\ InitRun

NextConcurrent ==
  ExecuteWorkflow \/ ProcessorResolves \/ ProcessorRejects \/ SwitchCall

SpecConcurrent == InitConcurrent /\ [][NextConcurrent]_vars

\* The validator and then a run of the engine on the workflows of
\* InitRepeat.
NextFrame ==
  CallValidateWorkflow \/ ExecuteWorkflow \/ ProcessorResolves
    \/ ProcessorRejects

SpecFrame == InitRepeat /\ [][NextFrame]_vars

\* one id more than a node list has at most, so that four nodes can form a
\* diamond
WideIds == 1..(MaxNodes + 1)

\* k enabled action nodes with the ids 1..k
ActionNodes(k) ==
  [i \in 1..k |-> [id |-> i, type |-> "action", name |-> NodeNames[i],
                   enabled |-> TRUE]]

ReverseSeq(seq) == [i \in 1..Len(seq) |-> seq[Len(seq) + 1 - i]]

\* the connection from one id to another
Link(source, target) ==
  [sourceNodeId |-> source, targetNodeId |-> target,
   sourceOutput |-> "out", targetInput |-> "in"]

\* the lists of at most maxLen distinct connections between different ids of
\* Ids, sorted by source, then target
RECURSIVE SortedLinks(_, _)
SortedLinks(Ids, maxLen) ==
  IF maxLen = 0 THEN {<<>>}
  ELSE LET shorter == SortedLinks(Ids, maxLen - 1)
           longest == {cs \in shorter : Len(cs) = maxLen - 1}
           links == {Link(e[1], e[2]) :
                       e \in {f \in Ids \X Ids : f[1] # f[2]}}
           Fits(cs, l) == IF cs = <<>> THEN TRUE ELSE Before(cs[Len(cs)], l)
       IN shorter \cup
            UNION {{Append(cs, l) : l \in {m \in links : Fits(cs, m)}} :
                     cs \in longest}

\* The validator on workflows large enough for a diamond: all the ids or
\* all but the last are nodes, listed forwards or backwards; up to two
\* connections more than MaxConns, sorted or in the opposite order.
InitCycles ==
  /\ \E k \in {MaxNodes, MaxNodes + 1} :
       \E ns \in {ActionNodes(k), ReverseSeq(ActionNodes(k))} :
         \E sorted \in SortedLinks(WideIds, MaxConns + 2) :
           \E cs \in {sorted, ReverseSeq(sorted)} :
             workflow = Workflow(ns, cs, EmptyData, "stop")
  /\ triggerData = EmptyData
  /\ processors = Registry({})
  /\ InitRun

NextCycles == CallValidateWorkflow

SpecCycles == InitCycles /\ [][NextCycles]_vars

\* The builder's store: the current workflow is null or a workflow without
\* nodes and connections, and the four reducers are dispatched in any order.
InitBuilder ==
  /\ workflow = Workflow(<<>>, <<>>, EmptyData, "stop")
  /\ triggerData = EmptyData
  /\ processors = Registry({})
  /\ InitEngine
  /\ currentWorkflow \in
       {NoCurrentWorkflow, [nodes |-> <<>>, connections |-> <<>>]}

NextBuilder ==
  DispatchAddNode \/ DispatchDeleteNode \/ DispatchAddConnection
    \/ DispatchDeleteConnection

SpecBuilder == InitBuilder /\ [][NextBuilder]_vars

\* The validator called twice on the workflows of InitGraph.
NextRevalidate == CallValidateWorkflow \/ ValidateAgain

SpecRevalidate == InitGraph /\ [][NextRevalidate]_vars

\* -------------------------------------------------- notions of the properties
Returned == pc = "returned"

Mode == workflow.settings.errorHandling

\* the node ids of a list of contexts or calls, in order
RECURSIVE NodeIdsOf(_)
NodeIdsOf(seq) ==
  IF seq = <<>> THEN <<>> ELSE <<Head(seq).nodeId>> \o NodeIdsOf(Tail(seq))

Range(seq) == {seq[i] : i \in 1..Len(seq)}

\* the positions of an id in a sequence of ids
Positions(seq, id) == {i \in 1..Len(seq) : seq[i] = id}

\* the workflow Trigger -> A -> B of three enabled nodes: node 1 is the
\* trigger, node 2 is A, node 3 is B
IsTriggerAB ==
  /\ Len(workflow.nodes) = 3
  /\ workflow.nodes[1].type = "trigger"
  /\ workflow.nodes[2].type = "action"
  /\ workflow.nodes[3].type = "action"
  /\ \A i \in 1..3 : workflow.nodes[i].enabled
  /\ Len(workflow.connections) = 2
  /\ workflow.connections[1].sourceNodeId = 1
  /\ workflow.connections[1].targetNodeId = 2
  /\ workflow.connections[2].sourceNodeId = 2
  /\ workflow.connections[2].targetNodeId = 3

\* in this run every call of A's processor threw and every other call returned
AFailsOthersSucceed ==
  \A i \in 1..Len(calls) :
    calls[i].result = (IF calls[i].nodeId = 2 THEN "rejected" ELSE "resolved")

\* C1: under 'stop', the run of Trigger -> A -> B in which A's processor
\* throws returns exactly the contexts Trigger (completed) and A (failed),
\* never invokes B's processor, and has status failed.
C1_StopSemantics ==
  (Returned /\ IsTriggerAB /\ Mode = "stop" /\ AFailsOthersSucceed) =>
     /\ Len(execution.nodeExecutions) = 2
     /\ execution.nodeExecutions[1].nodeId = 1
     /\ execution.nodeExecutions[1].status = "completed"
     /\ execution.nodeExecutions[2].nodeId = 2
     /\ execution.nodeExecutions[2].status = "failed"
     /\ 3 \notin Range(NodeIdsOf(calls))
     /\ execution.status = "failed"

\* C2: every node whose processor was invoked has its context in
\* nodeExecutions, in the order of the invocations, whether the call
\* returned or threw and under every error handling mode.
C2_EveryAttemptRecorded ==
  Returned => NodeIdsOf(execution.nodeExecutions) = NodeIdsOf(calls)

\* the connections of the workflow as pairs <<source, target>>
Edges == {<<c.sourceNodeId, c.targetNodeId>> : c \in Range(workflow.connections)}

\* the ids reachable from the ids in S along the pairs of E, S included
RECURSIVE ReachableFrom(_, _)
ReachableFrom(S, E) ==
  LET more == S \cup {e[2] : e \in {f \in E : f[1] \in S}}
  IN IF more = S THEN S ELSE ReachableFrom(more, E)

TriggerIds == {n.id : n \in {m \in Range(workflow.nodes) : m.type = "trigger"}}

OrderComputed == "getExecutionOrder" \in called

\* C3: for every connection A -> B whose ends are both reachable from a
\* trigger node, A appears before B in the order getExecutionOrder returns.
C3_TopologicalSoundness ==
  OrderComputed =>
    \A e \in Edges :
      (e[1] \in ReachableFrom(TriggerIds, Edges)
         /\ e[2] \in ReachableFrom(TriggerIds, Edges)) =>
        \E i \in Positions(orderResult, e[1]) :
          \E j \in Positions(orderResult, e[2]) : i < j

\* in this run every call of A's processor threw
AFails ==
  \A i \in 1..Len(calls) : calls[i].nodeId = 2 => calls[i].result = "rejected"

\* B's processor succeeds
BSucceeds ==
  \A i \in 1..Len(calls) : calls[i].nodeId = 3 => calls[i].result = "resolved"

\* C4: under 'continue', in the run of Trigger -> A -> B in which A's
\* processor throws and B's succeeds, B's processor is invoked after A
\* failed, B's inputData lacks the key the connection A -> B routes, and the
\* execution status is completed.
C4_ContinueSemantics ==
  (Returned /\ IsTriggerAB /\ Mode = "continue" /\ AFails /\ BSucceeds) =>
     /\ \E i \in Positions(NodeIdsOf(calls), 2) :
          \E j \in Positions(NodeIdsOf(calls), 3) :
            i < j /\ calls[i].result = "rejected"
     /\ \A j \in 1..Len(execution.nodeExecutions) :
          execution.nodeExecutions[j].nodeId = 3 =>
            workflow.connections[2].targetInput
              \notin DOMAIN execution.nodeExecutions[j].inputData
     /\ execution.status = "completed"

\* C5: executeWorkflow returns a record instead of raising: the call is
\* either not yet made, awaiting a processor whose call resolves or rejects,
\* or returned, and the record it returns has status completed or failed and
\* endTime set.
C5_AlwaysReturnsRecord ==
  /\ pc \in {"idle", "awaiting", "returned"}
  /\ pc = "awaiting" => processor # NotRegistered
  /\ Returned =>
       /\ execution.status \in {"completed", "failed"}
       /\ execution.endTime = "stamped"

C5_Witness ==
  /\ Returned
  /\ Mode = "stop"
  /\ \E i \in 1..Len(calls) : calls[i].result = "rejected"
  /\ execution.status = "failed"
  /\ execution.endTime = "stamped"

\* the name of the node with this id
NameOf(nodeId) == workflow.nodes[FindNode(workflow, nodeId)].name

\* C6: under 'stop', a processor call that threw is the last call of the
\* run, the run has returned with status failed, and execution.error
\* contains the name of the node whose processor threw.
C6_StopAborts ==
  Mode = "stop" =>
    \A i \in 1..Len(calls) :
      calls[i].result = "rejected" =>
        /\ i = Len(calls)
        /\ Returned
        /\ execution.status = "failed"
        /\ NameOf(calls[i].nodeId) \in Range(execution.error)

C6_Witness ==
  /\ Mode = "stop"
  /\ Returned
  /\ Len(calls) > 0
  /\ calls[Len(calls)].result = "rejected"
  /\ \E j \in (idx + 1)..Len(executionOrder) :
       ~Skipped(workflow, executionOrder[j])
  /\ NameOf(calls[Len(calls)].nodeId) \in Range(execution.error)

\* the ids of the order that the loop does not skip, in order
Unskipped(nodeId) == ~Skipped(workflow, nodeId)

AttemptedOrder == SelectSeq(executionOrder, Unskipped)

\* C7: under 'continue' and under 'retry' alike, a run returns status
\* completed; every enabled node of the order was attempted exactly once, in
\* order; and a context is failed, with the error message, exactly when the
\* call of its own processor threw.
C7_ContinueAndRetry ==
  (Returned /\ Mode \in {"continue", "retry"} /\ TriggerIds # {}) =>
     /\ execution.status = "completed"
     /\ NodeIdsOf(calls) = AttemptedOrder
     /\ \A n \in Range(NodeIdsOf(calls)) :
          Cardinality(Positions(NodeIdsOf(calls), n)) = 1
     /\ NodeIdsOf(execution.nodeExecutions) = NodeIdsOf(calls)
     /\ \A i \in 1..Len(calls) :
          IF calls[i].result = "rejected"
          THEN /\ execution.nodeExecutions[i].status = "failed"
               /\ execution.nodeExecutions[i].error = "boom"
          ELSE /\ execution.nodeExecutions[i].status = "completed"
               /\ execution.nodeExecutions[i].error = Undefined

C7_Witness ==
  /\ Returned
  /\ Mode = "retry"
  /\ Len(calls) = 3
  /\ calls[1].result = "rejected"
  /\ calls[2].result = "rejected"
  /\ calls[3].result = "resolved"
  /\ execution.status = "completed"

\* C8: a workflow without a node of type trigger is rejected: the execution
\* returned is failed with an error, nodeExecutions is empty and no
\* processor was invoked.
C8_NoTriggerRejected ==
  (Returned /\ TriggerIds = {}) =>
     /\ execution.status = "failed"
     /\ execution.error # <<>>
     /\ execution.nodeExecutions = <<>>
     /\ calls = <<>>

C8_Witness ==
  /\ Returned
  /\ TriggerIds = {}
  /\ Len(workflow.nodes) >= 2
  /\ Len(workflow.connections) >= 1
  /\ execution.status = "failed"

\* the connections between nodes of workflow.nodes
NodeEdges ==
  {e \in Edges : FindNode(workflow, e[1]) # 0 /\ FindNode(workflow, e[2]) # 0}

\* the ids of the nodes that lie on a directed cycle of such connections
OnCycle ==
  {n \in NodeIds :
     n \in ReachableFrom({e[2] : e \in {f \in NodeEdges : f[1] = n}}, NodeEdges)}

Validated == "validateWorkflow" \in called

\* C9: a workflow whose connections contain a directed cycle among its
\* nodes (a self-connection included) is reported invalid by
\* validateWorkflow, with the error about circular dependencies.
C9_CycleRejected ==
  (Validated /\ OnCycle # {}) =>
     /\ ~validation.isValid
     /\ CircularError \in Range(validation.errors)

\* a cycle through a node that getExecutionOrder put in its order
C9_Witness ==
  /\ Validated
  /\ OrderComputed
  /\ OnCycle \cap Range(orderResult) # {}
  /\ Len(orderResult) = Cardinality(Range(orderResult))
  /\ CircularError \in Range(validation.errors)

\* the contexts created so far in the run
Contexts ==
  Range(execution.nodeExecutions)
    \cup (IF pc = "awaiting" THEN {nodeContext} ELSE {})

\* C10: the resolved inputData of a trigger node holds, for every key of
\* the trigger payload, the payload's value, also when workflow.variables or
\* a connection provides the same key.
C10_TriggerDataWins ==
  \A ctx \in Contexts :
    ctx.nodeId \in TriggerIds =>
      \A k \in DOMAIN triggerData :
        /\ k \in DOMAIN ctx.inputData
        /\ ctx.inputData[k] = triggerData[k]

\* a trigger node whose key x is given by the variables (1), by the trigger
\* payload (2) and by a connection from a completed node
C10_Witness ==
  /\ pc = "awaiting"
  /\ nodeContext.nodeId \in TriggerIds
  /\ "x" \in DOMAIN workflow.variables
  /\ workflow.variables["x"] = "1"
  /\ "x" \in DOMAIN triggerData
  /\ triggerData["x"] = "2"
  /\ \E c \in Range(workflow.connections) :
       /\ c.targetNodeId = nodeContext.nodeId
       /\ c.targetInput = "x"
       /\ \E done \in Range(execution.nodeExecutions) :
            done.nodeId = c.sourceNodeId /\ done.status = "completed"
  /\ nodeContext.inputData["x"] = "2"

\* the connections into a node
IncomingConnections(nodeId) ==
  {c \in Range(workflow.connections) : c.targetNodeId = nodeId}

\* the statuses of the contexts that a run's record holds for a node
StatusesOf(exec, nodeId) ==
  {ctx.status : ctx \in {d \in Range(exec.nodeExecutions) : d.nodeId = nodeId}}

\* the keys that the connections into a node contribute, given the record
\* of the run at the moment the node's inputs are resolved
RoutedKeys(exec, nodeId) ==
  {c.targetInput :
     c \in {d \in IncomingConnections(nodeId) :
              "completed" \in StatusesOf(exec, d.sourceNodeId)}}

\* C11: while a node is being attempted, the keys of its inputData are the
\* targetInput keys of the connections whose source node has a completed
\* context in the record of this run, together with the keys of the workflow
\* variables and (for a trigger) of the trigger payload: a connection from a
\* node that failed, was skipped or has not run yet contributes no key, and
\* the node is attempted all the same.
C11_OnlyCompletedSourcesRoute ==
  pc = "awaiting" =>
    DOMAIN nodeContext.inputData =
      RoutedKeys(execution, nodeContext.nodeId)
        \cup DOMAIN workflow.variables
        \cup (IF nodeContext.nodeId \in TriggerIds
              THEN DOMAIN triggerData ELSE {})

\* a node is being attempted with no input key although one connection into
\* it comes from a node whose context is failed and another from a node
\* that was skipped as disabled
C11_Witness ==
  /\ pc = "awaiting"
  /\ nodeContext.inputData = EmptyData
  /\ \E c \in IncomingConnections(nodeContext.nodeId) :
       StatusesOf(execution, c.sourceNodeId) = {"failed"}
  /\ \E c \in IncomingConnections(nodeContext.nodeId) :
       /\ c.sourceNodeId \in Range(executionOrder)
       /\ FindNode(workflow, c.sourceNodeId) # 0
       /\ Skipped(workflow, c.sourceNodeId)

\* the value that a connection routes: the sourceOutput field of the output
\* of its source's first context in the record
RoutedValue(exec, c) ==
  Get(exec.nodeExecutions[FindExecution(exec, c.sourceNodeId)].outputData,
      c.sourceOutput)

\* the connections into the node being attempted that route the output of a
\* completed node into a key that is also a workflow variable, where the
\* trigger payload does not provide the key as well
RoutedOntoVariable ==
  {c \in IncomingConnections(nodeContext.nodeId) :
     /\ StatusesOf(execution, c.sourceNodeId) = {"completed"}
     /\ c.targetInput \in DOMAIN workflow.variables
     /\ ~(nodeContext.nodeId \in TriggerIds
          /\ c.targetInput \in DOMAIN triggerData)}

\* C12 as stated: the routed upstream value shadows the workflow variable of
\* the same key.
C12_RoutedValueShadowsVariable ==
  pc = "awaiting" =>
    \A c \in RoutedOntoVariable :
      nodeContext.inputData[c.targetInput] = RoutedValue(execution, c)

\* C12: when a connection routes the output of a completed node into a key
\* that is also a workflow variable, the variable shadows the routed value:
\* the resolved inputData holds the variable's value for that key.
C12_VariableShadowsRoutedValue ==
  pc = "awaiting" =>
    \A c \in RoutedOntoVariable :
      nodeContext.inputData[c.targetInput] = workflow.variables[c.targetInput]

\* a node is being attempted whose key x is the variable x = 1 and also the
\* target of a connection that routes the value "value" of a completed node
C12_Witness ==
  /\ pc = "awaiting"
  /\ \E c \in RoutedOntoVariable :
       /\ c.targetInput = "x"
       /\ RoutedValue(execution, c) = "value"
       /\ workflow.variables["x"] = "1"
       /\ nodeContext.inputData["x"] = "1"

\* the node of this id is in workflow.nodes and enabled
Live(nodeId) ==
  \E i \in 1..Len(workflow.nodes) :
    workflow.nodes[i].id = nodeId /\ workflow.nodes[i].enabled

\* the run was not aborted by a processor that threw under 'stop'
NotAborted ==
  ~(Mode = "stop" /\ \E i \in 1..Len(calls) : calls[i].result = "rejected")

\* C13: a node id of the order whose node is disabled or absent from
\* workflow.nodes gets no context and no processor call; the run does not
\* fail because of it: unless a processor threw under 'stop', the run returns
\* completed with every live node of the order attempted, in order.
C13_SkippedNodesPassedOver ==
  /\ \A n \in Range(executionOrder) :
       ~Live(n) =>
         /\ n \notin Range(NodeIdsOf(calls))
         /\ \A ctx \in Contexts : ctx.nodeId # n
  /\ (Returned /\ TriggerIds # {} /\ NotAborted) =>
       /\ execution.status = "completed"
       /\ NodeIdsOf(calls) = SelectSeq(executionOrder, Live)

\* a returned run whose order holds a disabled node and an absent id, both
\* before a node that has its context
C13_Witness ==
  /\ Returned
  /\ execution.status = "completed"
  /\ \E k \in 1..Len(executionOrder) :
       /\ executionOrder[k] \in Range(NodeIdsOf(execution.nodeExecutions))
       /\ \E j \in 1..(k - 1) :
            /\ FindNode(workflow, executionOrder[j]) # 0
            /\ ~Live(executionOrder[j])
       /\ \E j \in 1..(k - 1) : FindNode(workflow, executionOrder[j]) = 0

\* seq is an initial segment of whole
IsPrefix(seq, whole) ==
  /\ Len(seq) <= Len(whole)
  /\ \A i \in 1..Len(seq) : seq[i] = whole[i]

\* C15: within a run the nodes are attempted one at a time in the order of
\* getExecutionOrder: the processor calls made so far are those of an
\* initial segment of the live nodes of the order; only the last call can be
\* outstanding, and it is exactly while the run awaits it that one context
\* (not yet in nodeExecutions) is running; every context in nodeExecutions
\* is completed or failed.
C15_OneNodeAtATime ==
  /\ pc # "idle" =>
       /\ executionOrder = getExecutionOrder(workflow)
       /\ IsPrefix(NodeIdsOf(calls), SelectSeq(executionOrder, Live))
  /\ \A i \in 1..(Len(calls) - 1) : calls[i].result # "pending"
  /\ pc = "awaiting" <=>
       (Len(calls) > 0 /\ calls[Len(calls)].result = "pending")
  /\ pc = "awaiting" <=> nodeContext.status = "running"
  /\ pc = "awaiting" => nodeContext.nodeId = calls[Len(calls)].nodeId
  /\ \A i \in 1..Len(execution.nodeExecutions) :
       execution.nodeExecutions[i].status \in {"completed", "failed"}

\* the third node of the order is being attempted after the call of the
\* first returned and the call of the second threw
C15_Witness ==
  /\ pc = "awaiting"
  /\ Len(calls) = 3
  /\ calls[1].result = "resolved"
  /\ calls[2].result = "rejected"
  /\ nodeContext.status = "running"
  /\ Len(execution.nodeExecutions) = 2
  /\ execution.nodeExecutions[1].status = "completed"
  /\ execution.nodeExecutions[2].status = "failed"

\* how many times x occurs in seq
Occurrences(seq, x) == Cardinality(Positions(seq, x))

\* the ids of the nodes of the workflow
WorkflowNodeIds == {n.id : n \in Range(workflow.nodes)}

\* the positions of the connections whose source (whose target) is the id
\* and names no node of the workflow
DanglingSources(id) ==
  {i \in 1..Len(workflow.connections) :
     workflow.connections[i].sourceNodeId = id /\ id \notin WorkflowNodeIds}

DanglingTargets(id) ==
  {i \in 1..Len(workflow.connections) :
     workflow.connections[i].targetNodeId = id /\ id \notin WorkflowNodeIds}

\* C16: validateWorkflow collects every diagnostic: the trigger error once
\* exactly when no node is a trigger; the circular error once when there is a
\* cycle among the nodes; for every id, one missing-source error naming it per
\* connection whose source is that id and names no node, and likewise one
\* missing-target error per such target; no other error; and isValid is
\* true exactly when the list of errors is empty.
C16_AllDiagnosticsCollected ==
  Validated =>
    LET errors == validation.errors
    IN /\ Occurrences(errors, NoTriggerError) =
            (IF TriggerIds = {} THEN 1 ELSE 0)
       /\ Occurrences(errors, CircularError) <= 1
       /\ OnCycle # {} => Occurrences(errors, CircularError) = 1
       /\ \A id \in NodeIds :
            /\ Occurrences(errors, MissingSourceError(id)) =
                 Cardinality(DanglingSources(id))
            /\ Occurrences(errors, MissingTargetError(id)) =
                 Cardinality(DanglingTargets(id))
       /\ Range(errors) \subseteq
            {NoTriggerError, CircularError}
              \cup {MissingSourceError(id) : id \in NodeIds}
              \cup {MissingTargetError(id) : id \in NodeIds}
       /\ validation.isValid <=> (errors = <<>>)

\* a validated workflow without trigger, with a cycle and with a dangling
\* connection end, whose errors are of all three kinds
C16_Witness ==
  /\ Validated
  /\ TriggerIds = {}
  /\ OnCycle # {}
  /\ \E id \in NodeIds : DanglingSources(id) \cup DanglingTargets(id) # {}
  /\ Len(validation.errors) >= 3
  /\ validation.errors[1] = NoTriggerError
  /\ validation.errors[2] = CircularError
  /\ ~validation.isValid

\* the ids that the workflow mentions: those of its nodes and those at the
\* ends of its connections
MentionedIds == WorkflowNodeIds \cup {e[1] : e \in Edges} \cup {e[2] : e \in Edges}

\* C18: for every workflow (cycles, self-connections, duplicate connections
\* and connections to ids of no node included) getExecutionOrder returns an
\* order that holds each id at most once, and only ids the workflow mentions.
C18_OrderVisitsOnce ==
  OrderComputed =>
    /\ \A id \in NodeIds : Cardinality(Positions(orderResult, id)) <= 1
    /\ Range(orderResult) \subseteq MentionedIds
    /\ Len(orderResult) <= Cardinality(MentionedIds)

\* the order was computed for a workflow whose trigger has a connection to
\* itself, twice, and holds that trigger once
C18_Witness ==
  /\ OrderComputed
  /\ Len(workflow.connections) = 2
  /\ workflow.connections[1] = workflow.connections[2]
  /\ workflow.connections[1].sourceNodeId = workflow.connections[1].targetNodeId
  /\ workflow.connections[1].sourceNodeId \in TriggerIds
  /\ Cardinality(Positions(orderResult, workflow.connections[1].sourceNodeId)) = 1

\* the statuses of a list of contexts, in order
RECURSIVE StatusesIn(_)
StatusesIn(seq) ==
  IF seq = <<>> THEN <<>> ELSE <<Head(seq).status>> \o StatusesIn(Tail(seq))

\* both executeWorkflow calls have returned
BothReturned == pc = "returned" /\ other.pc = "returned"

RegisteredAt(log, nodeId) == {i \in 1..Len(log) : log[i].nodeId = nodeId}

\* the processor of the last registerProcessor call made for this node id
LastRegistered(log, nodeId) ==
  log[CHOOSE i \in RegisteredAt(log, nodeId) :
        \A j \in RegisteredAt(log, nodeId) : j <= i].processor

\* the keys of the payload of the default processor, by node type
DefaultPayloadKeys(type) ==
  CASE type = "action" -> {"success", "data"}
    [] type = "table" -> {"recordsAffected"}
    [] type = "email" -> {"sent", "messageId"}
    [] type = "notification" -> {"delivered", "recipients"}
    [] OTHER -> {"processed"}

TypeOf(nodeId) == workflow.nodes[FindNode(workflow, nodeId)].type

\* p never throws and returns a payload with the default keys of the type
IsDefaultFor(p, type) ==
  /\ p # {}
  /\ \A outcome \in p :
       /\ ~outcome.throws
       /\ DOMAIN outcome.output = DefaultPayloadKeys(type)
       /\ type \notin {"action", "table", "email", "notification"} =>
            outcome.output["processed"] = "true"

\* a step of the run that invokes a processor invokes the one registered
\* last for the node's id, the default one when none was registered
InvokesLastRegistered ==
  (pc' = "awaiting" /\ Len(calls') > Len(calls)) =>
     IF RegisteredAt(registrations, nodeContext'.nodeId) # {}
     THEN processor' = LastRegistered(registrations, nodeContext'.nodeId)
     ELSE IsDefaultFor(processor', TypeOf(nodeContext'.nodeId))

\* the context of a node that no processor was ever registered for is
\* completed with the default payload of its type; a run during which no
\* processor was registered at all returns completed
DefaultsComplete ==
  /\ \A i \in 1..Len(execution.nodeExecutions) :
       LET ctx == execution.nodeExecutions[i]
       IN RegisteredAt(registrations, ctx.nodeId) = {} =>
            /\ ctx.status = "completed"
            /\ DOMAIN ctx.outputData = DefaultPayloadKeys(TypeOf(ctx.nodeId))
  /\ (Returned /\ registrations = <<>> /\ TriggerIds # {}) =>
       /\ execution.status = "completed"
       /\ NodeIdsOf(execution.nodeExecutions) = SelectSeq(executionOrder, Live)

\* C19: for each attempted node the engine invokes the processor registered
\* last under the node's id and, when none is registered, a default
\* processor that never throws and returns the payload of the node's type;
\* so a run without registered processors ends with every attempted node
\* completed and status completed.
C19_RegisteredOrDefault ==
  /\ []DefaultsComplete
  /\ [][InvokesLastRegistered]_vars

\* a returned run in which a node that Throwing and then Returning were
\* registered for completed with Returning's output, and a node of type
\* email without a registered processor completed with the email payload
C19_Witness ==
  /\ Returned
  /\ \E n \in NodeIds :
       /\ Len(registrations) = 2
       /\ registrations[1] = [nodeId |-> n, processor |-> Throwing]
       /\ registrations[2] = [nodeId |-> n, processor |-> Returning]
       /\ \E ctx \in Range(execution.nodeExecutions) :
            /\ ctx.nodeId = n
            /\ ctx.status = "completed"
            /\ ctx.outputData = [out |-> "value"]
  /\ \E ctx \in Range(execution.nodeExecutions) :
       /\ TypeOf(ctx.nodeId) = "email"
       /\ DOMAIN ctx.outputData = {"sent", "messageId"}

\* the node id and the status of each context of a list, in order
RECURSIVE Outcomes(_)
Outcomes(seq) ==
  IF seq = <<>> THEN <<>>
  ELSE <<[nodeId |-> Head(seq).nodeId, status |-> Head(seq).status]>>
         \o Outcomes(Tail(seq))

\* what a call alone records for the ids of an order, with processors that
\* do not vary: nothing for a node that is not live; a failed context for
\* a node whose processor throws, unless the mode is 'stop', which ends the
\* run without it; a completed context otherwise
RECURSIVE AloneFrom(_)
AloneFrom(ids) ==
  IF ids = <<>> THEN <<>>
  ELSE LET n == Head(ids)
       IN IF ~Live(n) THEN AloneFrom(Tail(ids))
          ELSE IF processors[n] = Throwing
          THEN IF Mode = "stop" THEN <<>>
               ELSE <<[nodeId |-> n, status |-> "failed"]>>
                      \o AloneFrom(Tail(ids))
          ELSE <<[nodeId |-> n, status |-> "completed"]>>
                 \o AloneFrom(Tail(ids))

\* the record and the running context of a call hold that call's contexts
\* only, and the inputs of its running context come from its own record
OwnRecord(run) ==
  /\ \A i \in 1..Len(run.execution.nodeExecutions) :
       run.execution.nodeExecutions[i].executionId = run.execution.id
  /\ run.pc = "awaiting" =>
       /\ run.nodeContext.executionId = run.execution.id
       /\ DOMAIN run.nodeContext.inputData =
            RoutedKeys(run.execution, run.nodeContext.nodeId)
              \cup DOMAIN workflow.variables
              \cup (IF run.nodeContext.nodeId \in TriggerIds
                    THEN DOMAIN triggerData ELSE {})
  /\ run.pc = "returned" =>
       Outcomes(run.execution.nodeExecutions) =
         AloneFrom(getExecutionOrder(workflow))

\* C20: of two executeWorkflow calls that interleave at their awaits on one
\* engine, each has its own execution id and record: the contexts in it
\* carry its id, the inputs of each node come from the completed contexts
\* of its own record, and the node ids and statuses it returns are those of
\* the call made alone.
C20_CallsAreIndependent ==
  /\ OwnRecord(ThisRun)
  /\ OwnRecord(other)
  /\ (pc # "idle" /\ other.pc # "idle") => execution.id # other.execution.id

\* a call awaits a node with no input from a connection whose source is
\* completed in the record of the other call only, while the other call
\* awaits a later node
C20_Witness ==
  /\ pc = "awaiting"
  /\ other.pc = "awaiting"
  /\ Len(other.execution.nodeExecutions) = 2
  /\ nodeContext.inputData = EmptyData
  /\ \E c \in IncomingConnections(nodeContext.nodeId) :
       /\ StatusesOf(execution, c.sourceNodeId) = {}
       /\ StatusesOf(other.execution, c.sourceNodeId) = {"completed"}

\* C21: no step of validateWorkflow or of executeWorkflow changes the
\* workflow it was given: nodes, connections, variables and settings are
\* after the step what they were before it, whatever the outcome.
C21_WorkflowIsOnlyRead ==
  [][/\ workflow'.nodes = workflow.nodes
     /\ workflow'.connections = workflow.connections
     /\ workflow'.variables = workflow.variables
     /\ workflow'.settings = workflow.settings]_vars

\* a workflow with a dangling connection was validated and then run, and
\* the run was failed by a stop after one node completed
C21_Witness ==
  /\ Validated
  /\ ~validation.isValid
  /\ \E id \in NodeIds : DanglingSources(id) \cup DanglingTargets(id) # {}
  /\ Returned
  /\ Mode = "stop"
  /\ execution.status = "failed"
  /\ Len(execution.nodeExecutions) = 1

\* the connections turned round: target to source
Reversed(E) == {<<e[2], e[1]>> : e \in E}

\* the ids of the triggers and every id from which a trigger is reached along
\* the connections
TriggerAncestors == ReachableFrom(TriggerIds, Reversed(Edges))

\* C22: the order of getExecutionOrder holds exactly the ids of the trigger
\* nodes and the ids from which a trigger node is reached by following
\* connections from source to target; an id that is only downstream of a
\* trigger, or connected to no trigger, is not in it.
C22_OrderIsTriggerAncestors ==
  OrderComputed => Range(orderResult) = TriggerAncestors

\* the order was computed for a workflow with a trigger that has a source,
\* which is in the order, and a target that is a node and is not in the order
C22_Witness ==
  /\ OrderComputed
  /\ \E t \in TriggerIds :
       /\ \E e \in Edges :
            /\ e[2] = t
            /\ e[1] \notin TriggerIds
            /\ e[1] \in Range(orderResult)
       /\ \E e \in NodeEdges :
            /\ e[1] = t
            /\ e[2] \notin Range(orderResult)

\* some id lies on a directed cycle of connections
Cyclic ==
  \E n \in NodeIds :
    n \in ReachableFrom({e[2] : e \in {f \in Edges : f[1] = n}}, Edges)

\* C23: when the connections form no cycle, for every connection A -> B
\* with B in the order of getExecutionOrder, A is in the order at an earlier
\* position.
C23_SourcesComeFirst ==
  (OrderComputed /\ ~Cyclic) =>
    \A e \in Edges :
      \A j \in Positions(orderResult, e[2]) :
        \E i \in Positions(orderResult, e[1]) : i < j

\* the order was computed for the chain A -> B -> trigger and is A, B,
\* trigger
C23_Witness ==
  /\ OrderComputed
  /\ ~Cyclic
  /\ Len(orderResult) = 3
  /\ orderResult[3] \in TriggerIds
  /\ <<orderResult[1], orderResult[2]>> \in Edges
  /\ <<orderResult[2], orderResult[3]>> \in Edges

\* the ids at the ends of the connections
EdgeIds == {e[1] : e \in Edges} \cup {e[2] : e \in Edges}

\* the ids that lie on a directed cycle of connections
OnAnyCycle ==
  {n \in EdgeIds :
     n \in ReachableFrom({e[2] : e \in {f \in Edges : f[1] = n}}, Edges)}

\* a directed cycle of connections can be reached from a node of the workflow
CycleReachable == ReachableFrom(WorkflowNodeIds, Edges) \cap OnAnyCycle # {}

\* C24: validateWorkflow reports the circular-dependencies error exactly
\* when a directed cycle of connections can be reached from some node of the
\* workflow, whatever the order of the nodes and of the connections, and
\* also when a node is reached along two paths or from two start nodes.
C24_CircularErrorIffCycle ==
  Validated => (CircularError \in Range(validation.errors) <=> CycleReachable)

\* a diamond was validated: node 1 connected to 2 and 3, both connected to
\* 4, and the circular-dependencies error was not reported
C24_Witness ==
  /\ Validated
  /\ Edges = {<<1, 2>>, <<1, 3>>, <<2, 4>>, <<3, 4>>}
  /\ WorkflowNodeIds = {1, 2, 3, 4}
  /\ CircularError \notin Range(validation.errors)

\* C25: in every record that executeWorkflow returns, execution.error is
\* set exactly when the status is failed; a run under 'continue' or 'retry'
\* in which processors threw returns completed with no execution error, the
\* failures being on the node contexts.
C25_ErrorIffFailed ==
  Returned =>
    /\ execution.error # NoExecution.error <=> execution.status = "failed"
    /\ Mode \in {"continue", "retry"} =>
         \A i \in 1..Len(calls) :
           calls[i].result = "rejected" =>
             /\ execution.nodeExecutions[i].status = "failed"
             /\ execution.nodeExecutions[i].error # NoContext.error

\* a run under 'retry' in which a processor threw has returned completed
\* without an execution error and with a failed context
C25_Witness ==
  /\ Returned
  /\ Mode = "retry"
  /\ \E i \in 1..Len(calls) : calls[i].result = "rejected"
  /\ execution.status = "completed"
  /\ execution.error = NoExecution.error
  /\ "failed" \in Range(StatusesIn(execution.nodeExecutions))

\* the workflow has trigger nodes and every one of them is disabled
AllTriggersDisabled == TriggerIds # {} /\ \A t \in TriggerIds : ~Live(t)

C27_ConnectionsNameNodes ==
  currentWorkflow # NoCurrentWorkflow =>
    \A i \in 1..Len(currentWorkflow.connections) :
      /\ currentWorkflow.connections[i].sourceNodeId \in CurrentNodeIds
      /\ currentWorkflow.connections[i].targetNodeId \in CurrentNodeIds

\* the current workflow has the nodes 1 and 2 and one connection, from 1 to
\* 2, whose id is 2: the connection made before it is gone, removed with a
\* deleted node or by its own id
C27_Witness ==
  /\ currentWorkflow # NoCurrentWorkflow
  /\ CurrentNodeIds = {1, 2}
  /\ Len(currentWorkflow.nodes) = 2
  /\ Len(currentWorkflow.connections) = 1
  /\ currentWorkflow.connections[1].sourceNodeId = 1
  /\ currentWorkflow.connections[1].targetNodeId = 2
  /\ currentWorkflow.connections[1].id = 2

====
